---------------------------- MODULE Spec2Model ----------------------------
(***************************************************************************)
(* Model of the contact store of addressbook_gui.py: AddressBook (load,    *)
(* save, find_by_id, find_by_email, upsert_full, delete_by_id) and the     *)
(* import loop AddressBookWindow._import_contacts.                         *)
(*                                                                         *)
(* A Python str is a sequence of one-character strings, so that strip()    *)
(* and lower() are computed and not assumed.  A Python dict is a function  *)
(* whose DOMAIN is its key set, so that a missing key differs from an      *)
(* empty value.  uuid.uuid4().hex is modelled as the next element of a     *)
(* series of hexadecimal strings that no file and no caller supplies: the  *)
(* model assumes that uuid4 does not collide.                              *)
(***************************************************************************)
EXTENDS Integers, Sequences, FiniteSets, TLC

\* ------------------------------------------------------------------ bounds

\* Number of ids uuid4 may hand out in one behaviour.
MaxUuid == 2

\* Number of saves that may fail in one behaviour.
MaxFailures == 1

\* Longest import batch.
MaxBatch == 2

\* Longest list of records in a store file that load is tried on alone.
MaxFile == 2

\* Longest vCard text, in lines, that the decoder is tried on.
MaxLines == 6

\* ----------------------------------------------------------------- strings

Whitespace == {" ", "\t"}

\* str.lower() on the characters the model uses.
LowerChar(ch) ==
    CASE ch = "A" -> "a"
      [] ch = "B" -> "b"
      [] ch = "N" -> "n"
      [] ch = "X" -> "x"
      [] OTHER -> ch

Lower(s) == [i \in 1..Len(s) |-> LowerChar(s[i])]

RECURSIVE LStrip(_)
LStrip(s) ==
    IF s # <<>> /\ Head(s) \in Whitespace THEN LStrip(Tail(s)) ELSE s

RECURSIVE RStrip(_)
RStrip(s) ==
    IF s # <<>> /\ s[Len(s)] \in Whitespace
    THEN RStrip(SubSeq(s, 1, Len(s) - 1))
    ELSE s

\* str.strip()
Strip(s) == RStrip(LStrip(s))

\* _safe_strip(v): (v or "").strip(); a missing value is passed as <<>>.
SafeStrip(s) == Strip(s)

\* ------------------------------------------------------------------- dicts

Keys ==
    {"_id", "vorname", "name", "strasse", "plz", "ort", "mobile",
     "festnetz", "email", "geburtsdatum", "webseite", "last_used"}

DEFAULT_CONTACT == [k \in Keys |-> <<>>]

EmptyDict == [k \in {} |-> <<>>]

\* d.get(k) or ""
GetOr(d, k) == IF k \in DOMAIN d THEN d[k] ELSE <<>>

\* {**d1, **d2}, and d1.update(d2): the keys of both, d2's value winning.
Merge(d1, d2) ==
    [k \in (DOMAIN d1) \cup (DOMAIN d2) |->
        IF k \in DOMAIN d2 THEN d2[k] ELSE d1[k]]

\* d[k] = v
SetKey(d, k, v) == Merge(d, k :> v)

\* -------------------------------------------------------------------- uuid

HexDigits == <<"0", "1", "2", "3", "4", "5", "6", "7", "8", "9">>

\* The n-th value uuid.uuid4().hex returns (n = 0, 1, ...), shortened to
\* one hexadecimal digit.
Uuid(n) == <<HexDigits[n + 1]>>

\* ------------------------------------------------------------------- files

\* What a path holds: nothing, bytes json.load rejects (also a partly
\* written file), JSON without a "contacts" list, or {"contacts": [...]}.
Missing == [kind |-> "missing", contacts |-> <<>>]
Corrupt == [kind |-> "corrupt", contacts |-> <<>>]
WrongShape == [kind |-> "wrongshape", contacts |-> <<>>]
FileOf(cs) == [kind |-> "ok", contacts |-> cs]

SaveOutcomes == {"ok", "write_fail", "replace_fail"}

\* A variant of save that writes the canonical path in place.
SaveInPlace(cs, d, t, o) ==
    CASE o = "ok" -> [disk |-> FileOf(cs), tmp |-> t, raised |-> FALSE]
      [] o = "write_fail" -> [disk |-> Corrupt, tmp |-> t, raised |-> TRUE]
      [] OTHER -> [disk |-> d, tmp |-> t, raised |-> TRUE]

\* AddressBook.save: open(tmp, "w"), json.dump, os.replace(tmp, path).
\* o names the step that fails, if one does; d and t are the canonical and
\* the temporary file before the call.
SaveWithoutReplace(cs, d, t, o) ==
    CASE o = "write_fail" -> [disk |-> d, tmp |-> Corrupt, raised |-> TRUE]
      [] o = "replace_fail" -> [disk |-> d, tmp |-> FileOf(cs), raised |-> TRUE]
      [] OTHER -> [disk |-> d, tmp |-> FileOf(cs), raised |-> FALSE]

Save(cs, d, t, o) ==
    CASE o = "write_fail" -> [disk |-> d, tmp |-> Corrupt, raised |-> TRUE]
      [] o = "replace_fail" -> [disk |-> d, tmp |-> FileOf(cs), raised |-> TRUE]
      [] OTHER -> [disk |-> FileOf(cs), tmp |-> Missing, raised |-> FALSE]

\* ------------------------------------------------------------------- store

\* all_contacts' order is the list's; the first index whose record
\* satisfies the test, 0 for None.
RECURSIVE FirstFrom(_, _, _, _)
FirstFrom(cs, key, want, i) ==
    IF i > Len(cs) THEN 0
    ELSE IF key = "_id" /\ Strip(GetOr(cs[i], "_id")) = want THEN i
    ELSE IF key = "email" /\ Strip(Lower(GetOr(cs[i], "email"))) = want THEN i
    ELSE FirstFrom(cs, key, want, i + 1)

\* AddressBook.find_by_id: index of the record returned, 0 for None.
FindById(cs, cid) == FirstFrom(cs, "_id", Strip(cid), 1)

\* A variant of find_by_email that does not lower-case the stored email.
RECURSIVE FirstStoredAsIs(_, _, _)
FirstStoredAsIs(cs, want, i) ==
    IF i > Len(cs) THEN 0
    ELSE IF Strip(GetOr(cs[i], "email")) = want THEN i
    ELSE FirstStoredAsIs(cs, want, i + 1)

FindByEmailCaseSensitive(cs, email) ==
    FirstStoredAsIs(cs, Strip(Lower(email)), 1)

\* AddressBook.find_by_email: index of the record returned, 0 for None.
FindByEmail(cs, email) == FirstFrom(cs, "email", Strip(Lower(email)), 1)

\* A variant that lets the appended record keep the caller's id.
NewRecordKeepsId(incoming, u) == incoming

\* The record upsert_full appends when nothing resolves.
NewRecord(incoming, u) == SetKey(incoming, "_id", Uuid(u))

\* A variant that merges field by field: an empty incoming value keeps
\* the stored one.
UpdateByIdKeepsValues(existing, incoming) ==
    [k \in (DOMAIN existing) \cup (DOMAIN incoming) |->
        IF k \in DOMAIN incoming /\ (incoming[k] # <<>> \/ k \notin DOMAIN existing)
        THEN incoming[k]
        ELSE existing[k]]

\* existing.update(incoming) on a match by id.
UpdateById(existing, incoming) == Merge(existing, incoming)

\* A variant of the email match that adopts the caller's id.
UpdateByEmailAdoptsId(existing, incoming, u) == Merge(existing, incoming)

\* The email match: incoming["_id"] = existing.get("_id") or uuid4().hex,
\* then existing.update(incoming).
UpdateByEmail(existing, incoming, u) ==
    Merge(existing,
          SetKey(incoming, "_id",
                 IF GetOr(existing, "_id") # <<>> THEN existing["_id"]
                 ELSE Uuid(u)))

\* A variant of upsert_full that resolves by id only.
UpsertFullByIdOnly(cs, contact, u) ==
    LET incoming == Merge(DEFAULT_CONTACT, contact)
        cid == Strip(GetOr(incoming, "_id"))
        byId == IF cid # <<>> THEN FindById(cs, cid) ELSE 0
    IN  IF byId # 0
        THEN [contacts |-> [cs EXCEPT ![byId] = UpdateById(cs[byId], incoming)],
              branch |-> "id", index |-> byId, drawn |-> 0]
        ELSE [contacts |-> Append(cs, NewRecord(incoming, u)),
              branch |-> "new", index |-> Len(cs) + 1, drawn |-> 1]

\* A variant of upsert_full that looks the email up before the id.
UpsertFullEmailFirst(cs, contact, u) ==
    LET incoming == Merge(DEFAULT_CONTACT, contact)
        cid == Strip(GetOr(incoming, "_id"))
        byId == IF cid # <<>> THEN FindById(cs, cid) ELSE 0
        email == Strip(GetOr(incoming, "email"))
        byEmail == IF email # <<>> THEN FindByEmail(cs, email) ELSE 0
    IN  IF byEmail # 0
        THEN [contacts |->
                  [cs EXCEPT ![byEmail] = UpdateByEmail(cs[byEmail], incoming, u)],
              branch |-> "email", index |-> byEmail,
              drawn |-> IF GetOr(cs[byEmail], "_id") # <<>> THEN 0 ELSE 1]
        ELSE IF byId # 0
        THEN [contacts |-> [cs EXCEPT ![byId] = UpdateById(cs[byId], incoming)],
              branch |-> "id", index |-> byId, drawn |-> 0]
        ELSE [contacts |-> Append(cs, NewRecord(incoming, u)),
              branch |-> "new", index |-> Len(cs) + 1, drawn |-> 1]

\* AddressBook.upsert_full on the list cs with u ids handed out so far:
\* the list afterwards, the branch taken, the index touched and the ids
\* drawn.  The save that follows is the caller's (see Upsert).
UpsertFull(cs, contact, u) ==
    LET incoming == Merge(DEFAULT_CONTACT, contact)
        cid == Strip(GetOr(incoming, "_id"))
        byId == IF cid # <<>> THEN FindById(cs, cid) ELSE 0
        email == Strip(GetOr(incoming, "email"))
        byEmail == IF email # <<>> THEN FindByEmail(cs, email) ELSE 0
    IN  IF byId # 0
        THEN [contacts |-> [cs EXCEPT ![byId] = UpdateById(cs[byId], incoming)],
              branch |-> "id", index |-> byId, drawn |-> 0]
        ELSE IF byEmail # 0
        THEN [contacts |->
                  [cs EXCEPT ![byEmail] = UpdateByEmail(cs[byEmail], incoming, u)],
              branch |-> "email", index |-> byEmail,
              drawn |-> IF GetOr(cs[byEmail], "_id") # <<>> THEN 0 ELSE 1]
        ELSE [contacts |-> Append(cs, NewRecord(incoming, u)),
              branch |-> "new", index |-> Len(cs) + 1, drawn |-> 1]

\* A variant of delete_by_id that compares the ids as they are stored.
DeleteByIdUnstripped(cs, cid) ==
    SelectSeq(cs, LAMBDA c : GetOr(c, "_id") # cid)

\* AddressBook.delete_by_id without its save: the records kept.
DeleteById(cs, cid) ==
    SelectSeq(cs, LAMBDA c : Strip(GetOr(c, "_id")) # Strip(cid))


\* The loop of AddressBook.load that gives every record without an id a
\* fresh one, in list order; next is the number of ids handed out after it.
\* A variant of the id loop of load that gives every record a new id.
RECURSIVE EnsureIdsAnew(_, _)
EnsureIdsAnew(cs, u) ==
    IF cs = <<>> THEN [contacts |-> <<>>, next |-> u]
    ELSE LET rest == EnsureIdsAnew(Tail(cs), u + 1)
         IN  [contacts |-> <<SetKey(Head(cs), "_id", Uuid(u))>> \o rest.contacts,
              next |-> rest.next]

RECURSIVE EnsureIds(_, _)
EnsureIds(cs, u) ==
    IF cs = <<>> THEN [contacts |-> <<>>, next |-> u]
    ELSE LET c == Head(cs)
             lacks == GetOr(c, "_id") = <<>>
             rest == EnsureIds(Tail(cs), IF lacks THEN u + 1 ELSE u)
         IN  [contacts |->
                  <<IF lacks THEN SetKey(c, "_id", Uuid(u)) ELSE c>>
                      \o rest.contacts,
              next |-> rest.next]

\* What AddressBook.load leaves in self._data["contacts"] before the id
\* loop: the file's list, [] for a file that does not parse or has no
\* "contacts" list, and the list in memory when the file does not exist.
LoadData(cs, d) ==
    CASE d.kind = "missing" -> cs
      [] d.kind = "ok" -> d.contacts
      [] OTHER -> <<>>

\* AddressBook.load without its save.
LoadFull(cs, d, u) == EnsureIds(LoadData(cs, d), u)

\* ------------------------------------------------------------------ import

Unbekannt == <<"(", "u", "n", "b", "e", "k", "a", "n", "n", "t", ")">>

\* The label _import_contacts gives the diagnostic of a skipped record.
ErrorLabel(c) ==
    LET email == SafeStrip(GetOr(c, "email"))
        full == Strip(SafeStrip(GetOr(c, "vorname")) \o <<" ">>
                          \o SafeStrip(GetOr(c, "name")))
    IN  IF email # <<>> THEN email
        ELSE IF full # <<>> THEN full
        ELSE Unbekannt

NoTally == [added |-> 0, updated |-> 0, skipped |-> 0, errors |-> <<>>]

\* A variant of the loop that ends at the first record whose upsert_full
\* raises.
RECURSIVE ImportLoopAborting(_, _, _, _, _, _, _)
ImportLoopAborting(cs, d, t, u, batch, pattern, tl) ==
    IF batch = <<>>
    THEN [contacts |-> cs, disk |-> d, tmp |-> t, next |-> u, tally |-> tl]
    ELSE LET c == Head(batch)
             email == Lower(SafeStrip(GetOr(c, "email")))
             exists == IF email # <<>> THEN FindByEmail(cs, email) ELSE 0
             r == UpsertFull(cs, c, u)
             s == Save(r.contacts, d, t, Head(pattern))
         IN  IF s.raised
             THEN [contacts |-> r.contacts, disk |-> s.disk, tmp |-> s.tmp,
                   next |-> u + r.drawn,
                   tally |-> [tl EXCEPT !.skipped = @ + 1,
                                        !.errors = Append(@, ErrorLabel(c))]]
             ELSE ImportLoopAborting(r.contacts, s.disk, s.tmp, u + r.drawn,
                      Tail(batch), Tail(pattern),
                      IF exists # 0
                      THEN [tl EXCEPT !.updated = @ + 1]
                      ELSE [tl EXCEPT !.added = @ + 1])

\* The for loop of _import_contacts over batch, pattern[i] being the
\* outcome of the save inside the i-th upsert_full.
RECURSIVE ImportLoop(_, _, _, _, _, _, _)
ImportLoop(cs, d, t, u, batch, pattern, tl) ==
    IF batch = <<>>
    THEN [contacts |-> cs, disk |-> d, tmp |-> t, next |-> u, tally |-> tl]
    ELSE LET c == Head(batch)
             email == Lower(SafeStrip(GetOr(c, "email")))
             exists == IF email # <<>> THEN FindByEmail(cs, email) ELSE 0
             r == UpsertFull(cs, c, u)
             s == Save(r.contacts, d, t, Head(pattern))
             tl2 == IF s.raised
                    THEN [tl EXCEPT !.skipped = @ + 1,
                                    !.errors = Append(@, ErrorLabel(c))]
                    ELSE IF exists # 0
                    THEN [tl EXCEPT !.updated = @ + 1]
                    ELSE [tl EXCEPT !.added = @ + 1]
         IN  ImportLoop(r.contacts, s.disk, s.tmp, u + r.drawn,
                        Tail(batch), Tail(pattern), tl2)

\* ------------------------------------------------------------------- vcard

\* s.split(sep) for a one-character sep.
RECURSIVE Split(_, _)
Split(s, sep) ==
    IF \A i \in 1..Len(s) : s[i] # sep THEN <<s>>
    ELSE LET i == CHOOSE j \in 1..Len(s) :
                      s[j] = sep /\ \A k \in 1..(j - 1) : s[k] # sep
         IN  <<SubSeq(s, 1, i - 1)>> \o Split(SubSeq(s, i + 1, Len(s)), sep)

\* s.split(): the parts between runs of whitespace.
RECURSIVE Words(_)
Words(s) ==
    IF \A i \in 1..Len(s) : s[i] \notin Whitespace
    THEN IF s = <<>> THEN <<>> ELSE <<s>>
    ELSE LET i == CHOOSE j \in 1..Len(s) :
                      s[j] \in Whitespace /\ \A k \in 1..(j - 1) : s[k] \notin Whitespace
         IN  (IF i = 1 THEN <<>> ELSE <<SubSeq(s, 1, i - 1)>>)
                 \o Words(SubSeq(s, i + 1, Len(s)))

\* " ".join(ws)
RECURSIVE JoinSp(_)
JoinSp(ws) ==
    IF ws = <<>> THEN <<>>
    ELSE IF Len(ws) = 1 THEN ws[1]
    ELSE ws[1] \o <<" ">> \o JoinSp(Tail(ws))

\* s.startswith(p)
StartsWith(s, p) == Len(s) >= Len(p) /\ SubSeq(s, 1, Len(p)) = p

\* A logical line of vCard text after ln.strip(), as parse_vcard_contacts
\* tells lines apart: BEGIN:VCARD, END:VCARD, a line "left:value" with the
\* upper-cased property name of left and the set of type tokens of its
\* parameters, and any other line (empty, or without a colon).
BeginLine == [kind |-> "begin", prop |-> "", pset |-> {}, value |-> <<>>]
EndLine == [kind |-> "end", prop |-> "", pset |-> {}, value |-> <<>>]
OtherLine == [kind |-> "other", prop |-> "", pset |-> {}, value |-> <<>>]
PropLine(p, ts, v) == [kind |-> "prop", prop |-> p, pset |-> ts, value |-> v]

\* A variant that writes whether or not the field holds a value.
SetAlways(cur, k, v) == SetKey(cur, k, v)

\* if not cur.get(k): cur[k] = v
SetIfEmpty(cur, k, v) == IF GetOr(cur, k) = <<>> THEN SetKey(cur, k, v) ELSE cur

\* The branch prop == "N".
ApplyN(cur, value) ==
    LET parts == Split(value, ";")
    IN  SetKey(SetKey(cur, "name", SafeStrip(parts[1])),
               "vorname",
               IF Len(parts) > 1 THEN SafeStrip(parts[2]) ELSE GetOr(cur, "vorname"))

\* The branch prop == "FN".
ApplyFN(cur, value) ==
    IF GetOr(cur, "name") = <<>> /\ Strip(value) # <<>>
    THEN LET bits == Words(Strip(value))
         IN  IF Len(bits) = 1
             THEN SetKey(cur, "name", bits[1])
             ELSE SetKey(SetKey(cur, "vorname",
                                JoinSp(SubSeq(bits, 1, Len(bits) - 1))),
                         "name", bits[Len(bits)])
    ELSE cur

\* The branch prop == "TEL", pset being the type tokens of the line.
ApplyTELHomeFirst(cur, pset, value) ==
    LET tel == SafeStrip(value)
    IN  IF tel = <<>> THEN cur
        ELSE IF pset \cap {"HOME", "VOICE"} # {}
        THEN SetIfEmpty(cur, "festnetz", tel)
        ELSE IF pset \cap {"CELL", "MOBILE"} # {}
        THEN SetIfEmpty(cur, "mobile", tel)
        ELSE IF GetOr(cur, "festnetz") = <<>>
        THEN SetKey(cur, "festnetz", tel)
        ELSE IF GetOr(cur, "mobile") = <<>>
        THEN SetKey(cur, "mobile", tel)
        ELSE cur

ApplyTEL(cur, pset, value) ==
    LET tel == SafeStrip(value)
    IN  IF tel = <<>> THEN cur
        ELSE IF pset \cap {"CELL", "MOBILE"} # {}
        THEN SetIfEmpty(cur, "mobile", tel)
        ELSE IF pset \cap {"HOME", "VOICE"} # {}
        THEN SetIfEmpty(cur, "festnetz", tel)
        ELSE IF GetOr(cur, "festnetz") = <<>>
        THEN SetKey(cur, "festnetz", tel)
        ELSE IF GetOr(cur, "mobile") = <<>>
        THEN SetKey(cur, "mobile", tel)
        ELSE cur

\* The branch prop == "ADR".
ApplyADR(cur, value) ==
    LET parts == Split(value, ";")
        a == IF Len(parts) >= 3
             THEN SetIfEmpty(cur, "strasse", SafeStrip(parts[3]))
             ELSE cur
    IN  IF Len(parts) >= 6
        THEN SetIfEmpty(SetIfEmpty(a, "ort", SafeStrip(parts[4])),
                        "plz", SafeStrip(parts[6]))
        ELSE a

\* What a line "left:value" of an open card does to cur.
ApplyProp(cur, ln) ==
    CASE ln.prop = "N" -> ApplyN(cur, ln.value)
      [] ln.prop = "FN" -> ApplyFN(cur, ln.value)
      [] ln.prop = "EMAIL" ->
             SetIfEmpty(cur, "email", Lower(SafeStrip(ln.value)))
      [] ln.prop = "TEL" -> ApplyTEL(cur, ln.pset, ln.value)
      [] ln.prop = "ADR" -> ApplyADR(cur, ln.value)
      [] ln.prop \in {"URL", "WEB", "WEBSITE"} ->
             SetIfEmpty(cur, "webseite", SafeStrip(ln.value))
      [] ln.prop \in {"BDAY", "BIRTHDAY"} ->
             SetIfEmpty(cur, "geburtsdatum", SafeStrip(ln.value))
      [] OTHER -> cur

\* commit(): the card read so far becomes a record, unless it is empty.
Commit(st) ==
    [in_card |-> st.in_card,
     cur |-> EmptyDict,
     parsed |-> IF st.cur # EmptyDict
                THEN Append(st.parsed, Merge(DEFAULT_CONTACT, st.cur))
                ELSE st.parsed]

\* One pass of the loop over the lines, on st = [in_card, cur, parsed].
ParseStep(st, ln) ==
    CASE ln.kind = "begin" -> [st EXCEPT !.in_card = TRUE, !.cur = EmptyDict]
      [] ln.kind = "end" ->
             IF st.in_card
             THEN [Commit(st) EXCEPT !.in_card = FALSE]
             ELSE st
      [] ln.kind = "prop" /\ st.in_card ->
             [st EXCEPT !.cur = ApplyProp(st.cur, ln)]
      [] OTHER -> st

\* After the loop: a card still open at the end of the text is committed.
ParseFinish(st) == IF st.in_card /\ st.cur # EmptyDict THEN Commit(st) ELSE st

Http == <<"h", "t", "t", "p">>
Https == <<"h", "t", "t", "p", "s", ":", "/", "/">>

\* The URL export_vcard writes for a website.
WithScheme(web) == IF StartsWith(web, Http) THEN web ELSE Https \o web

\* The lines export_vcard writes for the contact c.
ExportLines(c) ==
    LET semi == <<";">>
        field(k) == GetOr(c, k)
    IN  <<BeginLine,
          PropLine("VERSION", {}, <<"3", ".", "0">>),
          PropLine("N", {}, field("name") \o semi \o field("vorname")
                                \o semi \o semi \o semi),
          PropLine("FN", {}, Strip(field("vorname") \o <<" ">> \o field("name")))>>
        \o (IF field("email") # <<>>
            THEN <<PropLine("EMAIL", {}, field("email"))>> ELSE <<>>)
        \o (IF field("mobile") # <<>>
            THEN <<PropLine("TEL", {"CELL"}, field("mobile"))>> ELSE <<>>)
        \o (IF field("festnetz") # <<>>
            THEN <<PropLine("TEL", {"HOME"}, field("festnetz"))>> ELSE <<>>)
        \o (IF field("strasse") # <<>> \/ field("ort") # <<>> \/ field("plz") # <<>>
            THEN <<PropLine("ADR", {"HOME"},
                       semi \o semi \o field("strasse") \o semi \o field("ort")
                           \o semi \o semi \o field("plz") \o semi \o semi)>>
            ELSE <<>>)
        \o (IF field("webseite") # <<>>
            THEN <<PropLine("URL", {}, WithScheme(field("webseite")))>> ELSE <<>>)
        \o (IF field("geburtsdatum") # <<>>
            THEN <<PropLine("BDAY", {}, field("geburtsdatum"))>> ELSE <<>>)
        \o <<EndLine>>

\* ------------------------------------------------------------------ inputs

sA == <<"a">>
sB == <<"b">>
sN == <<"n">>
sT == <<"t">>
sX == <<"x">>
sZ == <<"z">>

Pad(s) == s \o <<" ">>

\* A stored record as a hand-written or older file may hold it.
Rec(id, email, name) == ("_id" :> id) @@ ("email" :> email) @@ ("name" :> name)

\* The store files the program may find at start.
InitFiles ==
    {Missing, Corrupt, WrongShape,
     FileOf(<<("email" :> sA) @@ ("name" :> sN) @@ ("last_used" :> sT)>>),
     FileOf(<<Rec(sX, sA, sN) @@ ("last_used" :> sT), Rec(sX, sB, <<>>)>>)}

\* Field maps without an id that a caller of upsert_full may pass.
Bodies ==
    {("email" :> <<"A", " ">>) @@ ("name" :> sN),
     ("name" :> sN)}

\* Ids a caller may pass: the last record's id padded with white space
\* (the stored id itself once a padded id has been stored) and an id no
\* record has.
IdArgs(cs) ==
    (IF cs = <<>> THEN {} ELSE {Pad(Strip(GetOr(cs[Len(cs)], "_id")))})
        \cup {sZ}

UpsertArgs(cs) ==
    Bodies \cup {("_id" :> id) @@ b : id \in IdArgs(cs), b \in Bodies}

\* Ids passed to delete_by_id: the first record's id stripped, and an id no
\* record has.
DeleteArgs(cs) ==
    (IF cs = <<>> THEN {} ELSE {Strip(GetOr(cs[1], "_id"))}) \cup {sZ}

\* What ContactEditDialog.get_contact returns for a new contact: every key
\* but last_used, the id empty, the texts stripped.
DialogContact(email, name) ==
    [k \in Keys \ {"last_used"} |->
        CASE k = "email" -> Strip(email)
          [] k = "name" -> Strip(name)
          [] OTHER -> <<>>]

DialogInputs == {DialogContact(sA, sN), DialogContact(<<>>, sN)}

\* Field maps as import_csv builds them (the mapped columns only, values
\* stripped) and as parse_vcard_contacts does (every default key).
ImportPool ==
    {("email" :> <<"A">>) @@ ("name" :> sN),
     Merge(DEFAULT_CONTACT, ("name" :> sN))}

SeqsUpTo(S, n) == UNION {[1..k -> S] : k \in 0..n}

\* The number of saves of a pattern that fail.
RECURSIVE FailuresIn(_)
FailuresIn(pattern) ==
    IF pattern = <<>> THEN 0
    ELSE (IF Head(pattern) = "ok" THEN 0 ELSE 1) + FailuresIn(Tail(pattern))

\* How a save inside an import may end.
ImportOutcomes == {"ok", "write_fail"}

\* The outcomes of n saves of which at most f fail.
Patterns(n, f) ==
    {p \in [1..n -> ImportOutcomes] : FailuresIn(p) <= f}

\* ----------------------------------------------------------- state machine

VARIABLES
    contacts,   \* AddressBook._data["contacts"]
    disk,       \* the file at AddressBook.path
    tmp,        \* the file at path + ".tmp"
    uuids,      \* number of ids uuid4 has handed out
    failures,   \* number of saves that have failed
    op,         \* the last operation: "new" (in __init__, before its load), "load", "upsert", "delete", "new_contact", "import"; "dead" when __init__ raised
    arg,        \* its argument: the contact, or the id under "_id"
    outcome,    \* the outcome of its last save
    repeat,     \* it is an upsert_full or an import whose contact or batch the operation before it, of the same kind, had too
    last,       \* what it did: the branch upsert_full took, the index of the record it wrote and that record before; the number of records delete_by_id dropped
    tally,      \* the counters and diagnostics of the last import
    text,       \* the lines export_vcard wrote, <<>> before it has
    exported,   \* the contact they were written for
    nlines,     \* number of lines parse_vcard_contacts has read
    lastln,     \* the last of them
    begins,     \* number of BEGIN:VCARD lines among them
    in_card,    \* parse_vcard_contacts' in_card
    cur,        \* its cur
    parsed,     \* its contacts
    vdone       \* it has returned

storeVars ==
    <<contacts, disk, tmp, uuids, failures, op, arg, outcome, repeat, last,
      tally>>

vcardVars ==
    <<text, exported, nlines, lastln, begins, in_card, cur, parsed, vdone>>

vars == <<storeVars, vcardVars>>

\* No vCard text is being written or read.
VCardIdle ==
    /\ text = <<>>
    /\ exported = EmptyDict
    /\ nlines = 0
    /\ lastln = OtherLine
    /\ begins = 0
    /\ in_card = FALSE
    /\ cur = EmptyDict
    /\ parsed = <<>>
    /\ vdone = FALSE

NoLast == [branch |-> "none", index |-> 0, before |-> EmptyDict]

\* What an upsert_full that returned r did to the list cs.
LastOf(cs, r) ==
    [branch |-> r.branch, index |-> r.index,
     before |-> IF r.branch = "new" THEN EmptyDict ELSE cs[r.index]]

\* AddressBook.__init__ after self._data = {"contacts": []}, on each file.
Init ==
    /\ contacts = <<>>
    /\ disk \in InitFiles
    /\ tmp = Missing
    /\ uuids = 0
    /\ failures = 0
    /\ op = "new"
    /\ arg = EmptyDict
    /\ outcome = "none"
    /\ repeat = FALSE
    /\ last = NoLast
    /\ tally = NoTally
    /\ VCardIdle

\* A save may fail as long as the failures allowed are not used up.
MayEnd(o, n) == o = "ok" \/ failures + n < MaxFailures

\* In the actions, \E x \in {e} names the value of e once, for what
\* follows it.

\* AddressBook.load: the call in __init__ and AddressBookWindow.reload,
\* which touches the store in no other way.  When the call in __init__
\* raises there is no AddressBook.
Load(o) ==
    \E l \in {LoadFull(contacts, disk, uuids)} :
    \E s \in {Save(l.contacts, disk, tmp, o)} :
        /\ op # "dead"
        /\ MayEnd(o, 0)
        /\ l.next <= MaxUuid
        /\ contacts' = l.contacts
        /\ disk' = s.disk
        /\ tmp' = s.tmp
        /\ uuids' = l.next
        /\ failures' = failures + (IF s.raised THEN 1 ELSE 0)
        /\ op' = IF op = "new" /\ s.raised THEN "dead" ELSE "load"
        /\ arg' = EmptyDict
        /\ outcome' = o
        /\ repeat' = FALSE
        /\ last' = NoLast
        /\ tally' = NoTally
        /\ UNCHANGED vcardVars

\* AddressBook.upsert_full(c), its save ending as o.
Upsert(c, o) ==
    \E r \in {UpsertFull(contacts, c, uuids)} :
    \E s \in {Save(r.contacts, disk, tmp, o)} :
        /\ op \notin {"new", "dead"}
        /\ MayEnd(o, 0)
        /\ uuids + r.drawn <= MaxUuid
        /\ contacts' = r.contacts
        /\ disk' = s.disk
        /\ tmp' = s.tmp
        /\ uuids' = uuids + r.drawn
        /\ failures' = failures + (IF s.raised THEN 1 ELSE 0)
        /\ op' = "upsert"
        /\ arg' = c
        /\ outcome' = o
        /\ repeat' = (op = "upsert" /\ arg = c)
        /\ last' = LastOf(contacts, r)
        /\ tally' = NoTally
        /\ UNCHANGED vcardVars

\* AddressBook.delete_by_id(cid), its save ending as o.
Delete(cid, o) ==
    \E kept \in {DeleteById(contacts, cid)} :
    \E s \in {Save(kept, disk, tmp, o)} :
        /\ op \notin {"new", "dead"}
        /\ MayEnd(o, 0)
        /\ contacts' = kept
        /\ disk' = s.disk
        /\ tmp' = s.tmp
        /\ failures' = failures + (IF s.raised THEN 1 ELSE 0)
        /\ op' = "delete"
        /\ arg' = ("_id" :> cid)
        /\ outcome' = o
        /\ repeat' = FALSE
        /\ last' = [NoLast EXCEPT !.branch = "delete",
                                  !.index = Len(contacts) - Len(kept)]
        /\ tally' = NoTally
        /\ UNCHANGED vcardVars
        /\ UNCHANGED uuids

\* AddressBookWindow.new_contact with the dialog accepted:
\* upsert_full(dlg.get_contact()), then reload() unless upsert_full raised.
NewContact(c, o1, o2) ==
    \E r \in {UpsertFull(contacts, c, uuids)} :
    \E s1 \in {Save(r.contacts, disk, tmp, o1)} :
    \E l \in {LoadFull(r.contacts, s1.disk, uuids + r.drawn)} :
    \E s2 \in {Save(l.contacts, s1.disk, s1.tmp, o2)} :
        /\ op \notin {"new", "dead"}
        /\ MayEnd(o1, 0)
        /\ uuids + r.drawn <= MaxUuid
        /\ op' = "new_contact"
        /\ arg' = c
        /\ repeat' = FALSE
        /\ last' = LastOf(contacts, r)
        /\ tally' = NoTally
        /\ UNCHANGED vcardVars
        /\ IF s1.raised
           THEN /\ o2 = "ok"
                /\ contacts' = r.contacts
                /\ disk' = s1.disk
                /\ tmp' = s1.tmp
                /\ uuids' = uuids + r.drawn
                /\ failures' = failures + 1
                /\ outcome' = o1
           ELSE /\ MayEnd(o2, 0)
                /\ contacts' = l.contacts
                /\ disk' = s2.disk
                /\ tmp' = s2.tmp
                /\ uuids' = l.next
                /\ failures' = failures + (IF s2.raised THEN 1 ELSE 0)
                /\ outcome' = o2

\* AddressBookWindow._import_contacts(b, ...): the loop, pattern[i] being
\* the outcome of the save of the i-th upsert_full, then reload(), its
\* save ending as o.
Import(b, pattern, o) ==
    \E r \in {ImportLoop(contacts, disk, tmp, uuids, b, pattern, NoTally)} :
    \E l \in {LoadFull(r.contacts, r.disk, r.next)} :
    \E s \in {Save(l.contacts, r.disk, r.tmp, o)} :
        /\ op \notin {"new", "dead"}
        /\ MayEnd(o, FailuresIn(pattern))
        /\ failures + FailuresIn(pattern) <= MaxFailures
        /\ l.next <= MaxUuid
        /\ contacts' = l.contacts
        /\ disk' = s.disk
        /\ tmp' = s.tmp
        /\ uuids' = l.next
        /\ failures' = failures + FailuresIn(pattern) + (IF s.raised THEN 1 ELSE 0)
        /\ op' = "import"
        /\ arg' = [batch |-> b, pattern |-> pattern]
        /\ outcome' = o
        /\ repeat' = (op = "import" /\ arg.batch = b)
        /\ last' = NoLast
        /\ tally' = r.tally
        /\ UNCHANGED vcardVars

\* The store as its callers drive it.
Next ==
    \/ \E o \in SaveOutcomes : Load(o)
    \/ \E c \in UpsertArgs(contacts), o \in SaveOutcomes : Upsert(c, o)
    \/ \E cid \in DeleteArgs(contacts), o \in SaveOutcomes : Delete(cid, o)

Spec == Init /\ [][Next]_vars

\* The same calls when every save succeeds.
NextOk ==
    \/ Load("ok")
    \/ \E c \in UpsertArgs(contacts) : Upsert(c, "ok")
    \/ \E cid \in DeleteArgs(contacts) : Delete(cid, "ok")

SpecOk == Init /\ [][NextOk]_vars

\* Store files for load alone: every list of up to MaxFile records without
\* an "_id" key, with an empty id or with an id.
FilePool ==
    {("email" :> sA) @@ ("name" :> sN),
     ("_id" :> <<>>) @@ ("email" :> sB),
     Rec(sX, sA, sN) @@ ("last_used" :> sT),
     Rec(Pad(sZ), <<>>, sN)}

LoadFiles ==
    {Missing, Corrupt, WrongShape} \cup {FileOf(cs) : cs \in SeqsUpTo(FilePool, MaxFile)}

InitLoad ==
    /\ contacts = <<>>
    /\ disk \in LoadFiles
    /\ tmp = Missing
    /\ uuids = 0
    /\ failures = 0
    /\ op = "new"
    /\ arg = EmptyDict
    /\ outcome = "none"
    /\ repeat = FALSE
    /\ last = NoLast
    /\ tally = NoTally
    /\ VCardIdle

\* AddressBook(path) on each of these files, and reload() after it.
NextLoad == \E o \in SaveOutcomes : Load(o)

SpecLoad == InitLoad /\ [][NextLoad]_vars

\* The window's handlers.
NextGui ==
    \/ \E o \in SaveOutcomes : Load(o)
    \/ \E c \in DialogInputs, o1, o2 \in SaveOutcomes : NewContact(c, o1, o2)
    \/ \E b \in SeqsUpTo(ImportPool, MaxBatch) :
         \E pattern \in Patterns(Len(b), MaxFailures - failures),
            o \in ImportOutcomes :
             Import(b, pattern, o)

SpecGui == Init /\ [][NextGui]_vars

\* Records as import_csv builds them (the mapped columns, trimmed) and as
\* parse_vcard_contacts does (every key, the email lower-cased).
ImportPoolOk ==
    {("email" :> <<"A">>) @@ ("name" :> sN),
     Merge(DEFAULT_CONTACT, ("email" :> sB)),
     Merge(DEFAULT_CONTACT, ("name" :> sN))}

AllOk(n) == [i \in 1..n |-> "ok"]

\* The window's handlers when every save succeeds.
NextGuiOk ==
    \/ Load("ok")
    \/ \E c \in DialogInputs : NewContact(c, "ok", "ok")
    \/ \E b \in SeqsUpTo(ImportPoolOk, MaxBatch) : Import(b, AllOk(Len(b)), "ok")

SpecGuiOk == Init /\ [][NextGuiOk]_vars

\* ------------------------------------------------------- vcard, as actions

\* The store before AddressBook(path), with no store file.
StoreIdle ==
    /\ contacts = <<>>
    /\ disk = Missing
    /\ tmp = Missing
    /\ uuids = 0
    /\ failures = 0
    /\ op = "new"
    /\ arg = EmptyDict
    /\ outcome = "none"
    /\ repeat = FALSE
    /\ last = NoLast
    /\ tally = NoTally

\* One pass of the loop of parse_vcard_contacts, on the line ln.
ReadLine(ln) ==
    \E st \in {ParseStep([in_card |-> in_card, cur |-> cur, parsed |-> parsed], ln)} :
        /\ ~vdone
        /\ in_card' = st.in_card
        /\ cur' = st.cur
        /\ parsed' = st.parsed
        /\ nlines' = nlines + 1
        /\ lastln' = ln
        /\ begins' = begins + (IF ln.kind = "begin" THEN 1 ELSE 0)
        /\ UNCHANGED <<text, exported, vdone, storeVars>>

\* The end of the text: the lines after the loop, and the return.
EndOfText ==
    \E st \in {ParseFinish([in_card |-> in_card, cur |-> cur, parsed |-> parsed])} :
        /\ ~vdone
        /\ in_card' = st.in_card
        /\ cur' = st.cur
        /\ parsed' = st.parsed
        /\ vdone' = TRUE
        /\ UNCHANGED <<text, exported, nlines, lastln, begins, storeVars>>

\* Lines of vCard text: the markers, a line without a colon, and property
\* lines of which two and two fill the same field.
LinePool ==
    {BeginLine, EndLine, OtherLine,
     PropLine("N", {}, <<"d", ";", "j">>),
     PropLine("N", {}, <<";", "j">>),
     PropLine("FN", {}, <<"k", " ", "e">>),
     PropLine("EMAIL", {}, <<"A">>),
     PropLine("TEL", {"CELL"}, <<"1">>),
     PropLine("TEL", {}, <<"2">>),
     PropLine("URL", {}, <<"w">>),
     PropLine("WEB", {}, <<"v">>),
     PropLine("ADR", {}, <<";", ";", "s", ";", "o", ";", ";", "p">>)}

InitDecode == StoreIdle /\ VCardIdle

\* The lines of a text of cards that hold telephone numbers only.
TelPool ==
    {BeginLine, EndLine,
     PropLine("TEL", {"CELL"}, <<"1">>),
     PropLine("TEL", {"CELL", "VOICE"}, <<"3">>),
     PropLine("TEL", {"MOBILE", "HOME"}, <<"8">>),
     PropLine("TEL", {"HOME"}, <<"4">>),
     PropLine("TEL", {"VOICE"}, <<"6">>),
     PropLine("TEL", {"WORK"}, <<"7">>),
     PropLine("TEL", {}, <<"2">>),
     PropLine("TEL", {}, <<"5", " ">>),
     PropLine("TEL", {"CELL"}, <<" ">>)}

\* parse_vcard_contacts of a text of at most MaxLines lines of TelPool.
NextTel ==
    \/ \E ln \in TelPool : nlines < MaxLines /\ ReadLine(ln)
    \/ EndOfText

SpecTel == InitDecode /\ [][NextTel]_vars

\* parse_vcard_contacts on every text of up to MaxLines lines of LinePool.
NextDecode ==
    \/ \E ln \in LinePool : nlines < MaxLines /\ ReadLine(ln)
    \/ EndOfText

SpecDecode == InitDecode /\ [][NextDecode]_vars

\* Stored contacts: each field empty or not, the website with and without
\* a scheme.
ExportValues ==
    [name : {<<>>, <<"d">>}, vorname : {<<>>, <<"j">>},
     email : {<<>>, sA}, mobile : {<<>>, <<"1">>}, festnetz : {<<>>, <<"2">>},
     strasse : {<<>>, <<"s">>}, ort : {<<>>, <<"o">>}, plz : {<<>>, <<"p">>},
     webseite : {<<>>, <<"w">>, Http \o <<":", "w">>},
     geburtsdatum : {<<>>, <<"g">>}]

ExportRecords == {Merge(SetKey(DEFAULT_CONTACT, "_id", Uuid(0)), v) : v \in ExportValues}

InitRoundTrip ==
    /\ StoreIdle
    /\ text = <<>>
    /\ exported \in ExportRecords
    /\ nlines = 0
    /\ lastln = OtherLine
    /\ begins = 0
    /\ in_card = FALSE
    /\ cur = EmptyDict
    /\ parsed = <<>>
    /\ vdone = FALSE

\* The body of the loop of export_vcard for one contact.
ExportVCard ==
    /\ text = <<>>
    /\ text' = ExportLines(exported)
    /\ UNCHANGED <<exported, nlines, lastln, begins, in_card, cur, parsed,
                   vdone, storeVars>>

\* export_vcard of one contact, then parse_vcard_contacts of the text.
NextRoundTrip ==
    \/ ExportVCard
    \/ text # <<>> /\ nlines < Len(text) /\ ReadLine(text[nlines + 1])
    \/ text # <<>> /\ nlines = Len(text) /\ EndOfText

SpecRoundTrip == InitRoundTrip /\ [][NextRoundTrip]_vars

\* ------------------------------------------------------------- properties

\* The id and the email of a record as find_by_id and find_by_email
\* compare them.
NormId(c) == Strip(GetOr(c, "_id"))
NormEmail(c) == Strip(Lower(GetOr(c, "email")))

Indices(cs) == 1..Len(cs)

\* The ids and the emails of the records of cs, as compared.
NormIds(cs) == [i \in Indices(cs) |-> NormId(cs[i])]
NormEmails(cs) == [i \in Indices(cs) |-> NormEmail(cs[i])]

\* The first index of seq that holds v, 0 when none does.
FirstIndex(seq, v) ==
    IF \E i \in DOMAIN seq : seq[i] = v
    THEN CHOOSE i \in DOMAIN seq :
             seq[i] = v /\ \A j \in 1..(i - 1) : seq[j] # v
    ELSE 0

\* The incoming id is not blank and some record of cs has it.
IdMatches(cs, c) ==
    LET id == NormId(c)
    IN  id # <<>> /\ FirstIndex(NormIds(cs), id) # 0

\* The incoming email is not blank and some record of cs has it.
EmailMatches(cs, c) ==
    LET email == NormEmail(c)
    IN  email # <<>> /\ FirstIndex(NormEmails(cs), email) # 0

FirstIdMatch(cs, c) == FirstIndex(NormIds(cs), NormId(c))

FirstEmailMatch(cs, c) == FirstIndex(NormEmails(cs), NormEmail(c))

\* after has the records of before, but for the one at index i.
OthersSame(before, after, i) ==
    /\ Len(after) = Len(before)
    /\ \A j \in Indices(before) \ {i} : after[j] = before[j]

\* Every canonical field of rec but the id is the incoming one, empty
\* where the incoming contact has none.
FieldsFrom(rec, c) ==
    \A k \in Keys \ {"_id"} : k \in DOMAIN rec /\ rec[k] = GetOr(c, k)

\* C1: in every state that load, upsert_full and delete_by_id reach from a
\* loadable store file, every stored record has a non-empty id and no two
\* stored records have the same id.
C1_IdsNonEmptyAndUnique ==
    op # "new" =>
        /\ \A i \in Indices(contacts) : GetOr(contacts[i], "_id") # <<>>
        /\ \A i, j \in Indices(contacts) :
               i # j => GetOr(contacts[i], "_id") # GetOr(contacts[j], "_id")

\* C2: no upsert_full changes the id of a record that is in the store: the
\* record it resolves to, by id or by email, keeps exactly the id it had.
C2_IdNeverChanges ==
    [][op' = "upsert" =>
           \A i \in Indices(contacts) :
               /\ i \in Indices(contacts')
               /\ GetOr(contacts'[i], "_id") = GetOr(contacts[i], "_id")]_vars

\* C3: an upsert_full whose incoming id (blanks trimmed, not empty) is that
\* of a stored record updates the first such record and adds none,
\* whatever the incoming email, also when another record has that email.
C3_IdPriority ==
    [][(op' = "upsert" /\ IdMatches(contacts, arg')) =>
           LET i == FirstIdMatch(contacts, arg')
           IN  /\ OthersSame(contacts, contacts', i)
               /\ NormId(contacts'[i]) = NormId(contacts[i])
               /\ FieldsFrom(contacts'[i], arg')]_vars

\* An upsert_full resolved by id although another record holds the
\* incoming email.
C3_Witness ==
    /\ op = "upsert"
    /\ last.branch = "id"
    /\ NormEmail(arg) # <<>>
    /\ \E j \in Indices(contacts) \ {last.index} :
           NormEmail(contacts[j]) = NormEmail(arg)

\* C4: an upsert_full whose incoming id is blank or that of no record, and
\* whose incoming email (blanks trimmed, not empty) is that of a stored
\* record, leaves the first such record its id, overwrites its other
\* fields and adds no record.
C4_EmailMatchKeepsId ==
    [][(op' = "upsert" /\ ~IdMatches(contacts, arg')
            /\ EmailMatches(contacts, arg')) =>
           LET i == FirstEmailMatch(contacts, arg')
           IN  /\ OthersSame(contacts, contacts', i)
               /\ GetOr(contacts'[i], "_id") = GetOr(contacts[i], "_id")
               /\ FieldsFrom(contacts'[i], arg')]_vars

\* An upsert_full resolved by email whose incoming id, that of no record,
\* was not adopted.
C4_Witness ==
    /\ op = "upsert"
    /\ last.branch = "email"
    /\ NormId(arg) # <<>>
    /\ GetOr(contacts[last.index], "_id") = GetOr(last.before, "_id")
    /\ GetOr(contacts[last.index], "_id") # GetOr(arg, "_id")

\* C5: an upsert_full that resolves neither by id nor by email appends one
\* record, whose id is not empty and differs from every id in the store
\* and from the incoming id, and leaves the records before it as they were.
C5_AppendsFresh ==
    [][(op' = "upsert" /\ ~IdMatches(contacts, arg')
            /\ ~EmailMatches(contacts, arg')) =>
           /\ Len(contacts') = Len(contacts) + 1
           /\ SubSeq(contacts', 1, Len(contacts)) = contacts
           /\ LET new == contacts'[Len(contacts') ]
              IN  /\ GetOr(new, "_id") # <<>>
                  /\ \A i \in Indices(contacts) :
                         GetOr(new, "_id") # GetOr(contacts[i], "_id")
                  /\ GetOr(new, "_id") # GetOr(arg', "_id")
                  /\ FieldsFrom(new, arg')]_vars

\* An upsert_full with an id that no record has appended to a store that
\* was not empty.
C5_Witness ==
    /\ op = "upsert"
    /\ last.branch = "new"
    /\ NormId(arg) # <<>>
    /\ Len(contacts) >= 2

\* C6: after an upsert_full that resolves to a stored record, every
\* canonical field of that record but the id is the incoming value, empty
\* where the incoming contact has none, and no other record has changed.
C6_FullReplace ==
    [][(op' = "upsert"
            /\ (IdMatches(contacts, arg') \/ EmailMatches(contacts, arg'))) =>
           LET i == IF IdMatches(contacts, arg')
                    THEN FirstIdMatch(contacts, arg')
                    ELSE FirstEmailMatch(contacts, arg')
           IN  /\ \A k \in Keys \ {"_id"} :
                      contacts'[i][k] = IF k \in DOMAIN arg' THEN arg'[k] ELSE <<>>
               /\ \A j \in Indices(contacts') : j # i => contacts'[j] = contacts[j]
               /\ Len(contacts') = Len(contacts)]_vars

\* An upsert_full emptied a field of the record it resolved to.
C6_Witness ==
    /\ op = "upsert"
    /\ last.branch \in {"id", "email"}
    /\ \E k \in Keys \ {"_id"} :
           /\ GetOr(last.before, k) # <<>>
           /\ contacts[last.index][k] = <<>>

\* C7, as claimed: an upsert_full that repeats the one before it, with the
\* same incoming contact, leaves the store as that one left it.
C7_AlwaysIdempotent ==
    [][(op = "upsert" /\ op' = "upsert" /\ arg' = arg) =>
           contacts' = contacts]_vars

\* C7, amended: the same, for an incoming contact whose email is not blank
\* or whose id is that of a stored record.
C7_IdempotentWhenKeyed ==
    [][(op = "upsert" /\ op' = "upsert" /\ arg' = arg
            /\ (NormEmail(arg') # <<>> \/ IdMatches(contacts, arg'))) =>
           contacts' = contacts]_vars

\* The second of two equal upsert_full calls of a contact without an id
\* found, by email, the record of the first.
C7_Witness ==
    /\ op = "upsert"
    /\ repeat
    /\ last.branch = "email"
    /\ NormId(arg) = <<>>
    /\ contacts[last.index] = last.before

\* C8: a save that fails leaves the canonical file as it was, and after
\* any operation the canonical file holds what it held before or the whole
\* list in memory.
C8_AtomicSave ==
    [][/\ outcome' # "ok" => disk' = disk
       /\ disk' = disk \/ disk' = FileOf(contacts')]_vars

\* A save failed while writing the temporary file, after upsert_full had
\* changed the list: the canonical file holds the list as last saved.
C8_Witness ==
    /\ op = "upsert"
    /\ outcome = "write_fail"
    /\ tmp = Corrupt
    /\ disk.kind = "ok"
    /\ disk.contacts # contacts

\* C9: delete_by_id leaves no record with the trimmed id, keeps every
\* other record, in order, and changes nothing when no record has the id.
C9_DeleteFrame ==
    [][op' = "delete" =>
           LET cid == Strip(arg'["_id"])
               others == {i \in Indices(contacts) : NormId(contacts[i]) # cid}
           IN  /\ \A i \in Indices(contacts') : NormId(contacts'[i]) # cid
               /\ Len(contacts') = Cardinality(others)
               /\ \A i \in others :
                      contacts'[Cardinality({j \in others : j <= i})] = contacts[i]
               /\ others = Indices(contacts) => contacts' = contacts]_vars

\* delete_by_id dropped a record and kept another.
C9_Witness ==
    /\ op = "delete"
    /\ last.index >= 1
    /\ Len(contacts) >= 1

\* C10: every id in the store before an import is in the store after it.
C10_ImportKeepsIds ==
    [][op' = "import" =>
           \A i \in Indices(contacts) :
               \E j \in Indices(contacts') :
                   GetOr(contacts'[j], "_id") = GetOr(contacts[i], "_id")]_vars

\* C11: a load from a store file that is missing, does not parse or has no
\* "contacts" list returns without raising and leaves the list in memory
\* empty.
C11_LoadNeverFails ==
    [][(op' \in {"load", "dead"} /\ disk.kind # "ok") =>
           (op' = "load" /\ outcome' = "ok" /\ contacts' = <<>>)]_vars

\* The ids of the records of cs that have one.
IdsIn(cs) == {GetOr(cs[i], "_id") : i \in Indices(cs)} \ {<<>>}

\* C12: load leaves in memory the records of the file, in order; a record
\* that had an id is unchanged; a record that lacked one differs only in
\* its id, which is not empty, is no id of the file and is given to no
\* other record; and when load returns, the file holds that list.
C12_LoadRepairsIds ==
    [][(op' \in {"load", "dead"} /\ disk.kind = "ok") =>
           LET old == disk.contacts
               lacked == {i \in Indices(old) : GetOr(old[i], "_id") = <<>>}
           IN  /\ Len(contacts') = Len(old)
               /\ \A i \in Indices(old) \ lacked : contacts'[i] = old[i]
               /\ \A i \in lacked :
                      /\ DOMAIN contacts'[i] = DOMAIN old[i] \cup {"_id"}
                      /\ \A k \in DOMAIN old[i] \ {"_id"} :
                             contacts'[i][k] = old[i][k]
                      /\ contacts'[i]["_id"] # <<>>
                      /\ contacts'[i]["_id"] \notin IdsIn(old)
                      /\ \A j \in lacked :
                             j # i => contacts'[j]["_id"] # contacts'[i]["_id"]
               /\ outcome' = "ok" => disk' = FileOf(contacts')]_vars

\* A load gave an id to one record of a file and kept the id of another.
C12_Witness ==
    /\ op = "load"
    /\ outcome = "ok"
    /\ disk = FileOf(contacts)
    /\ \E i, j \in Indices(contacts) :
           /\ contacts[i]["_id"] = Uuid(0)
           /\ contacts[j]["_id"] = sX
           /\ "last_used" \in DOMAIN contacts[j]

\* The diagnostics of the records of batch whose upsert_full raised, in
\* the order of the batch.
RECURSIVE LabelsOfSkipped(_, _)
LabelsOfSkipped(batch, pattern) ==
    IF batch = <<>> THEN <<>>
    ELSE (IF Head(pattern) # "ok" THEN <<ErrorLabel(Head(batch))>> ELSE <<>>)
             \o LabelsOfSkipped(Tail(batch), Tail(pattern))

AllHaveEmail(batch) ==
    \A i \in Indices(batch) : Strip(GetOr(batch[i], "email")) # <<>>

\* C14: when no save fails, an import of the batch that the import before
\* it had, every record of it with an email, counts no record as added or
\* skipped and all as updated, and leaves the number of stored records as
\* it was.
C14_ReimportUpdates ==
    [][(op = "import" /\ op' = "import" /\ arg'.batch = arg.batch
            /\ AllHaveEmail(arg'.batch)) =>
           /\ tally'.added = 0
           /\ tally'.updated = Len(arg'.batch)
           /\ tally'.skipped = 0
           /\ Len(contacts') = Len(contacts)]_vars

\* A batch of two records with different emails, one of them in upper
\* case, was imported a second time.
C14_Witness ==
    /\ op = "import"
    /\ repeat
    /\ Len(arg.batch) = 2
    /\ AllHaveEmail(arg.batch)
    /\ NormEmail(arg.batch[1]) # NormEmail(arg.batch[2])
    /\ \E i \in {1, 2} : arg.batch[i]["email"] # Lower(arg.batch[i]["email"])
    /\ tally.updated = 2

\* C15: every email that a stored record holds after upsert_full calls of
\* the dialog and of the imports is lower-cased and trimmed.
C15_EmailsNormalized ==
    \A i \in Indices(contacts) :
        GetOr(contacts[i], "email") = Strip(Lower(GetOr(contacts[i], "email")))

\* C16: upsert_full leaves the last_used of every stored record as it was.
C16_LastUsedUntouched ==
    [][op' = "upsert" =>
           \A i \in Indices(contacts) :
               GetOr(contacts'[i], "last_used") = GetOr(contacts[i], "last_used")]_vars

\* C17: new_contact, whose dialog returns a contact with an empty id,
\* appends one record and leaves the records before it as they were.
C17_NewContactAppends ==
    [][(op' = "new_contact" /\ GetOr(arg', "_id") = <<>>) =>
           /\ Len(contacts') = Len(contacts) + 1
           /\ SubSeq(contacts', 1, Len(contacts)) = contacts]_vars

\* The fields export_vcard writes and parse_vcard_contacts fills.
CardFields == Keys \ {"_id", "last_used"}

\* What export_vcard writes for the field k of c, empty when it writes
\* nothing for it.
Emitted(c, k) ==
    IF k = "webseite" /\ GetOr(c, k) # <<>>
    THEN WithScheme(c[k])
    ELSE GetOr(c, k)

\* C18: the text export_vcard writes for a contact parses into one record,
\* each of whose fields is what was written for it, and is empty when
\* nothing was.
C18_RoundTrip ==
    (vdone /\ exported # EmptyDict) =>
        /\ Len(parsed) = 1
        /\ \A k \in CardFields : parsed[1][k] = Emitted(exported, k)

\* The step reads a property line inside an open card.
PropLineRead == nlines' = nlines + 1 /\ lastln'.kind = "prop" /\ in_card

\* The step leaves the field k of the open card as it is, if it holds a
\* value.
Kept(k) == GetOr(cur, k) # <<>> => GetOr(cur', k) = GetOr(cur, k)

C20_OneRecordPerCard ==
    vdone => Len(parsed) = begins

\* The step reads a TEL line with a number inside an open card.
TelLineRead ==
    /\ PropLineRead
    /\ lastln'.prop = "TEL"
    /\ Strip(lastln'.value) # <<>>

\* The step puts the number of the line read in the field k of the open
\* card if that field is empty, and changes no other field of the card.
GoesTo(k) ==
    /\ GetOr(cur', k) = (IF GetOr(cur, k) = <<>>
                         THEN Strip(lastln'.value)
                         ELSE GetOr(cur, k))
    /\ \A j \in Keys \ {k} : GetOr(cur', j) = GetOr(cur, j)

\* C21: a number typed CELL or MOBILE goes to mobile, whatever other types
\* it has; otherwise one typed HOME or VOICE goes to festnetz; a number of
\* neither type goes to festnetz if that is empty, else to mobile if that
\* is empty, else nowhere; a phone field that holds a number keeps it.
C21_TelClassification ==
    [][TelLineRead =>
           /\ Kept("mobile") /\ Kept("festnetz")
           /\ IF lastln'.pset \cap {"CELL", "MOBILE"} # {}
              THEN GoesTo("mobile")
              ELSE IF lastln'.pset \cap {"HOME", "VOICE"} # {}
              THEN GoesTo("festnetz")
              ELSE IF GetOr(cur, "festnetz") = <<>>
              THEN GoesTo("festnetz")
              ELSE IF GetOr(cur, "mobile") = <<>>
              THEN GoesTo("mobile")
              ELSE cur' = cur]_vars

\* A number typed CELL and VOICE was read after an untyped one, which is in
\* festnetz: it is in mobile.
C21_Witness ==
    /\ in_card
    /\ lastln = PropLine("TEL", {"CELL", "VOICE"}, <<"3">>)
    /\ GetOr(cur, "festnetz") = <<"2">>
    /\ GetOr(cur, "mobile") = <<"3">>

\* C22: when load, upsert_full or delete_by_id returns without raising, the
\* store file holds the list in memory, the same records in the same order.
C22_DiskEqualsMemory ==
    [][(op' \in {"load", "upsert", "delete"} /\ outcome' = "ok") =>
           disk' = FileOf(contacts')]_vars

\* An upsert_full returned without raising, in a run in which a save had
\* failed before: the file holds the list in memory.
C22_Witness ==
    /\ op = "upsert"
    /\ outcome = "ok"
    /\ failures >= 1
    /\ contacts # <<>>
    /\ disk = FileOf(contacts)

\* C23: after an import that skipped no record, the store has as many
\* records as before the import plus the number the import reports as
\* added.
C23_StoreGrowsByAdded ==
    [][(op' = "import" /\ tally'.skipped = 0) =>
           Len(contacts') = Len(contacts) + tally'.added]_vars

\* C24: an upsert_full or delete_by_id that raises because its save fails
\* leaves the list in memory as it was before the call.
C24_FailedSaveKeepsMemory ==
    [][(op' \in {"upsert", "delete"} /\ outcome' # "ok") =>
           contacts' = contacts]_vars

=============================================================================
